---- MODULE Spec2Model ----
(***************************************************************************)
(* A model of sage's generation core: the diff compressor                  *)
(* (git.rs, smart_truncate_diff), the message sanitizer (ai/mod.rs,        *)
(* sanitize_commit_message) and the provider gateway (ai/mod.rs call_ai,   *)
(* ai/openai.rs, ai/claude.rs, config.rs) and the prompt builders          *)
(* (prompts.rs).                                                           *)
(*                                                                         *)
(* Four specifications share the variables:                                *)
(*   SpecDiff  draws a diff text and applies smart_truncate_diff;          *)
(*   SpecSan   draws a message and applies sanitize_commit_message twice;  *)
(*   Spec      draws a configuration and runs one call_ai invocation       *)
(*             against a nondeterministic network;                         *)
(*   SpecPrompt draws the prompt inputs and applies build_commit_prompt or *)
(*             build_branch_prompt.                                        *)
(***************************************************************************)
EXTENDS Integers, Sequences, FiniteSets, TLC

VARIABLES
    diff,        \* smart_truncate_diff: the argument `diff`
    truncated,   \* smart_truncate_diff: what the call produced
    dpc,         \* "input" before the call, "done" after it
    sanIn,       \* sanitize_commit_message: the original argument
    sanPrev,     \* the text handed to the latest sanitize pass
    sanText,     \* the text returned by the latest sanitize pass
    sanPc,       \* "input", "once", "twice": passes applied so far
    config,      \* call_ai: the Config read for this invocation
    pc,          \* call_ai: "idle", "sending", "reading", "done"; "panicked"
                 \* when the call unwound instead of returning
    inflight,    \* the provider variant whose request is in flight
    posts,       \* HTTP POST requests issued so far
    response,    \* the HTTP response: its status and the body the server sent
    bodyRead,    \* "pending", "ok" or "failed": the read of the response body
    result,      \* what call_ai returned
    style,       \* build_commit_prompt: the argument `style`
    context,     \* the argument `context` of the prompt builders
    files_changed, \* the argument `files_changed`
    promptDiff,  \* the argument `diff` of the prompt builders
    prompt,      \* the prompt that was built
    ppc,         \* "input" before the call; "commit", "branch" or "main" after
                 \* it, by the builder that ran
    branchIn,    \* branch-name sanitization: the generated text
    branchOut,   \* the sanitized branch name
    bpc,         \* "input" before the sanitization, "done" after it
    cli,         \* run_commit_flow: the parsed command line
    fpc,         \* run_commit_flow: "start", "staged", "prompted", "shown",
                 \* then "done" (Ok), "failed" (Err) or "panicked"
    answer,      \* what the user typed at the confirmation prompt
    edited,      \* the text the user left in the editor
    generated,   \* `message`: what call_ai returned
    displayed,   \* the message printed for the user
    committed,   \* the message handed to commit_changes
    commit_calls, \* invocations of commit_changes
    push_calls,  \* invocations of push_changes
    ai_calls,    \* invocations of call_ai
    conf,        \* the Config the configuration operations act on
    lastOp       \* the last configuration operation and whether it returned Ok

diffVars == <<diff, truncated, dpc>>
sanVars == <<sanIn, sanPrev, sanText, sanPc>>
aiVars == <<config, pc, inflight, posts, response, bodyRead, result>>
confVars == <<conf, lastOp>>
flowVars == <<cli, fpc, answer, edited, generated, displayed, committed,
              commit_calls, push_calls, ai_calls>>
branchVars == <<branchIn, branchOut, bpc>>
promptVars == <<style, context, files_changed, promptDiff, prompt, ppc>>
vars == <<diff, truncated, dpc, sanIn, sanPrev, sanText, sanPc,
          config, pc, inflight, posts, response, bodyRead, result,
          style, context, files_changed, promptDiff, prompt, ppc,
          branchIn, branchOut, bpc,
          cli, fpc, answer, edited, generated, displayed, committed,
          commit_calls, push_calls, ai_calls, conf, lastOp>>

(***************************************************************************)
(* Texts of the diff compressor.                                           *)
(*                                                                         *)
(* A diff is a Rust String of up to tens of thousands of bytes, so it is   *)
(* kept run-length encoded: a sequence of atoms [c, n], n >= 1, with no    *)
(* two neighbours of the same class c.  The classes are                    *)
(*   "a"   n copies of a one-byte character that is no line break,         *)
(*   "u"   n copies of a three-byte character (U+FFFD and the like),       *)
(*   "nl"  n line feeds,                                                   *)
(*   "M"   n copies of the ten-byte marker "diff --git",                   *)
(*   "P"   the first n bytes of one marker (only left by a byte cut),      *)
(*   "T"   n copies of the 17-byte literal "...[truncated]...",            *)
(*   "S"   n copies of the 32-byte literal                                 *)
(*         "... [truncated - diff too large]".                             *)
(* Two encodings are equal exactly when the strings are.                   *)
(***************************************************************************)

\* git.rs:7
MAX_DIFF_SIZE == 15000

\* bytes of one character (or literal) of class c
CharBytes(c) ==
    CASE c = "a" -> 1
      [] c = "u" -> 3
      [] c = "nl" -> 1
      [] c = "M" -> 10
      [] c = "P" -> 1
      [] c = "T" -> 17
      [] c = "S" -> 32

Atom(c, n) == [c |-> c, n |-> n]

\* String::push_str / concatenation, keeping the encoding canonical
PushStr(s, t) ==
    IF s = <<>> THEN t
    ELSE IF t = <<>> THEN s
    ELSE IF s[Len(s)].c = t[1].c
         THEN SubSeq(s, 1, Len(s) - 1)
              \o <<Atom(t[1].c, s[Len(s)].n + t[1].n)>>
              \o SubSeq(t, 2, Len(t))
         ELSE s \o t

RECURSIVE StrLenFrom(_, _)
StrLenFrom(s, i) ==
    IF i > Len(s) THEN 0
    ELSE s[i].n * CharBytes(s[i].c) + StrLenFrom(s, i + 1)

\* str::len: the length in bytes
StrLen(s) == StrLenFrom(s, 1)

\* str::split("diff --git"): the pieces between the markers, in order
RECURSIVE SplitFrom(_, _, _, _)
SplitFrom(s, i, cur, acc) ==
    IF i > Len(s) THEN Append(acc, cur)
    ELSE IF s[i].c = "M"
         THEN SplitFrom(s, i + 1, <<>>,
                  Append(acc, cur) \o [k \in 1..(s[i].n - 1) |-> <<>>])
         ELSE SplitFrom(s, i + 1, Append(cur, s[i]), acc)

SplitOnMarker(s) == SplitFrom(s, 1, <<>>, <<>>)

\* str::lines: the lines of a text without their line feeds; a last line
\* that is empty is not a line
RECURSIVE LinesFrom(_, _, _, _)
LinesFrom(s, i, cur, acc) ==
    IF i > Len(s) THEN (IF cur = <<>> THEN acc ELSE Append(acc, cur))
    ELSE IF s[i].c = "nl"
         THEN LinesFrom(s, i + 1, <<>>,
                  Append(acc, cur) \o [k \in 1..(s[i].n - 1) |-> <<>>])
         ELSE LinesFrom(s, i + 1, Append(cur, s[i]), acc)

Lines(s) == LinesFrom(s, 1, <<>>, <<>>)

Min(a, b) == IF a < b THEN a ELSE b

\* str::is_char_boundary(k) for 0 <= k <= len: no character straddles byte k
RECURSIVE IsCharBoundaryFrom(_, _, _)
IsCharBoundaryFrom(s, i, k) ==
    IF k = 0 \/ i > Len(s) THEN TRUE
    ELSE LET w == CharBytes(s[i].c)
             b == s[i].n * w
         IN  IF k >= b THEN IsCharBoundaryFrom(s, i + 1, k - b)
             ELSE IF s[i].c = "M" THEN TRUE   \* the marker is ASCII
             ELSE k % w = 0

IsCharBoundary(s, k) == IsCharBoundaryFrom(s, 1, k)

\* the first k bytes of s, k a character boundary of s
RECURSIVE PrefixFrom(_, _, _)
PrefixFrom(s, i, k) ==
    IF k = 0 \/ i > Len(s) THEN <<>>
    ELSE LET w == CharBytes(s[i].c)
             b == s[i].n * w
         IN  IF k >= b
             THEN PushStr(<<s[i]>>, PrefixFrom(s, i + 1, k - b))
             ELSE IF s[i].c = "M"
                  THEN (IF k \div w = 0 THEN <<>> ELSE <<Atom("M", k \div w)>>)
                       \o (IF k % w = 0 THEN <<>> ELSE <<Atom("P", k % w)>>)
                  ELSE <<Atom(s[i].c, k \div w)>>

Prefix(s, k) == PrefixFrom(s, 1, k)

(***************************************************************************)
(* smart_truncate_diff (git.rs:243-281).                                   *)
(***************************************************************************)

\* the literals the function writes
MarkerStr == <<Atom("M", 1)>>
NewLine == <<Atom("nl", 1)>>
TruncatedLine == <<Atom("T", 1), Atom("nl", 1)>>
TooLargeSuffix == <<Atom("S", 1)>>

\* git.rs:255-260 and 265-268: push lines[from+1 .. to] each followed by '\n'
\* (from and to are the 0-based bounds of a Rust range from..to)
RECURSIVE PushLines(_, _, _, _)
PushLines(parts, lines, from, to) ==
    IF from >= to THEN parts
    ELSE PushLines(PushStr(PushStr(parts, lines[from + 1]), NewLine),
                   lines, from + 1, to)

\* a variant of PushChunk that samples the middle only above 21 lines
PushChunkAbove21(parts, chunk) ==
    LET chunk_lines == Lines(chunk)
        n == Len(chunk_lines)
        withHeader == PushLines(PushStr(parts, MarkerStr), chunk_lines,
                                0, Min(5, n))
        mid == n \div 2
    IN  IF n > 21
        THEN PushLines(PushStr(withHeader, TruncatedLine), chunk_lines,
                       mid, Min(mid + 3, n))
        ELSE withHeader

\* git.rs:251-269: what one chunk adds to important_parts
PushChunk(parts, chunk) ==
    LET chunk_lines == Lines(chunk)
        n == Len(chunk_lines)
        header_lines == Min(5, n)
        withHeader == PushLines(PushStr(parts, MarkerStr), chunk_lines,
                                0, header_lines)
        mid == n \div 2
    IN  IF n > 20
        THEN PushLines(PushStr(withHeader, TruncatedLine), chunk_lines,
                       mid, Min(mid + 3, n))
        ELSE withHeader

\* a variant of the loop without its break: every chunk is accumulated
RECURSIVE ImportantPartsNoBreak(_, _, _)
ImportantPartsNoBreak(chunks, i, parts) ==
    IF i > Len(chunks) THEN parts
    ELSE ImportantPartsNoBreak(chunks, i + 1, PushChunk(parts, chunks[i]))

\* git.rs:250-274: the loop over the chunks, with its break
RECURSIVE ImportantPartsFrom(_, _, _)
ImportantPartsFrom(chunks, i, parts) ==
    IF i > Len(chunks) THEN parts
    ELSE LET next == PushChunk(parts, chunks[i])
         IN  IF StrLen(next) > MAX_DIFF_SIZE \div 2 THEN next
             ELSE ImportantPartsFrom(chunks, i + 1, next)

\* git.rs:248-274: important_parts after the loop; skip(1) drops the text
\* before the first marker
ImportantParts(d) ==
    LET pieces == SplitOnMarker(d)
    IN  ImportantPartsFrom(SubSeq(pieces, 2, Len(pieces)), 1, <<>>)

Returned(t) == [kind |-> "ok", text |-> t]
Panicked == [kind |-> "panic"]

\* git.rs:279: &diff[0..MAX_DIFF_SIZE / 2] panics unless the offset is a
\* character boundary
HardCut(d) ==
    IF IsCharBoundary(d, MAX_DIFF_SIZE \div 2)
    THEN Returned(PushStr(Prefix(d, MAX_DIFF_SIZE \div 2), TooLargeSuffix))
    ELSE Panicked

\* git.rs:276-280
FinalGuard(d, important_parts) ==
    IF StrLen(important_parts) < MAX_DIFF_SIZE
    THEN Returned(important_parts)
    ELSE HardCut(d)

\* a variant of smart_truncate_diff whose first test is < instead of <=
smart_truncate_diff_strict(d) ==
    IF StrLen(d) < MAX_DIFF_SIZE
    THEN Returned(d)
    ELSE FinalGuard(d, ImportantParts(d))

\* git.rs:243-281
smart_truncate_diff(d) ==
    IF StrLen(d) <= MAX_DIFF_SIZE
    THEN Returned(d)
    ELSE FinalGuard(d, ImportantParts(d))

(***************************************************************************)
(* The diffs the model draws: up to MaxParts parts of DiffParts, joined.   *)
(***************************************************************************)

MaxParts == 4

\* n lines of one-byte characters, of lengths len, len+1, ..; each line ends
\* with a line feed
RECURSIVE Block(_, _)
Block(n, len) ==
    IF n = 0 THEN <<>>
    ELSE PushStr(<<Atom("a", len), Atom("nl", 1)>>, Block(n - 1, len + 1))

\* a file section of 21 lines whose body is over the budget
BigFile == PushStr(MarkerStr, Block(21, 800))
\* a file section of 4 short lines
SmallFile == PushStr(MarkerStr, Block(4, 10))

DiffParts ==
    { MarkerStr, NewLine, <<Atom("a", 1)>>, <<Atom("a", 7489)>>,
      <<Atom("a", 14988)>>, <<Atom("u", 5000)>>, BigFile, SmallFile }

RECURSIVE Join(_, _)
Join(ps, i) == IF i > Len(ps) THEN <<>> ELSE PushStr(ps[i], Join(ps, i + 1))

Diffs == { Join(ps, 1) : ps \in UNION { [1..n -> DiffParts] : n \in 0..MaxParts } }

DiffInit ==
    /\ diff \in Diffs
    /\ truncated = Returned(<<>>)
    /\ dpc = "input"

\* one call of smart_truncate_diff
Truncate ==
    /\ dpc = "input"
    /\ truncated' = smart_truncate_diff(diff)
    /\ dpc' = "done"
    /\ UNCHANGED diff

DiffIdle ==
    /\ diff = <<>>
    /\ truncated = Returned(<<>>)
    /\ dpc = "idle"

(***************************************************************************)
(* sanitize_commit_message (ai/mod.rs:36-66).                              *)
(*                                                                         *)
(* A message is a sequence of characters.  The characters of the model:    *)
(* "a" a letter (\w), "_" (\w, and a marker), "*" and Tick (markers),       *)
(* ":" (neither \w nor \s), " " and "\n" (\s).                             *)
(***************************************************************************)

\* the backtick character
Tick == "tick"

Alphabet == {"a", ":", "_", "*", Tick, " ", "\n"}

\* \s of the regex crate and char::is_whitespace
IsSpace(ch) == ch \in {" ", "\n"}
\* \w of the regex crate: letters, digits and the underscore
IsWord(ch) == ch \in {"a", "_"}

\* the first index >= p of s that holds no whitespace (Len(s)+1 if none)
RECURSIVE SkipSpace(_, _)
SkipSpace(s, p) ==
    IF p > Len(s) \/ ~IsSpace(s[p]) THEN p ELSE SkipSpace(s, p + 1)

\* the first index >= p of s that holds no word character
RECURSIVE SkipWord(_, _)
SkipWord(s, p) ==
    IF p > Len(s) \/ ~IsWord(s[p]) THEN p ELSE SkipWord(s, p + 1)

\* the last index <= p of s that holds no whitespace (0 if none)
RECURSIVE SkipSpaceBack(_, _)
SkipSpaceBack(s, p) ==
    IF p < 1 \/ ~IsSpace(s[p]) THEN p ELSE SkipSpaceBack(s, p - 1)

\* str::trim
Trim(s) == SubSeq(s, SkipSpace(s, 1), SkipSpaceBack(s, Len(s)))

\* s holds k copies of d from index p on
AllAt(s, p, k, d) ==
    /\ p + k - 1 <= Len(s)
    /\ \A j \in p..(p + k - 1) : s[j] = d

\* the first index >= p of s that holds d (Len(s)+1 if none)
RECURSIVE RunEnd(_, _, _)
RunEnd(s, p, d) ==
    IF p > Len(s) \/ s[p] = d THEN p ELSE RunEnd(s, p + 1, d)

\* ai/mod.rs:39: ```\w*\s*([\s\S]*?)\s*``` matched from index i: the opening
\* fence, the greedy language tag and whitespace, then the shortest inner
\* text that is followed by optional whitespace and a closing fence.
\* FenceInner is the index where group 1 starts, FenceClose(s, e) the index
\* where it ends (exclusive), 0 when no closing fence follows.
FenceInner(s, i) == SkipSpace(s, SkipWord(s, i + 3))

RECURSIVE FenceClose(_, _)
FenceClose(s, e) ==
    IF e > Len(s) THEN 0
    ELSE IF AllAt(s, SkipSpace(s, e), 3, Tick) THEN e
    ELSE FenceClose(s, e + 1)

FenceAt(s, i) ==
    /\ AllAt(s, i, 3, Tick)
    /\ FenceClose(s, FenceInner(s, i)) # 0

\* the leftmost index where the fence regex matches, 0 if it matches nowhere
RECURSIVE FirstFence(_, _)
FirstFence(s, i) ==
    IF i > Len(s) THEN 0
    ELSE IF FenceAt(s, i) THEN i
    ELSE FirstFence(s, i + 1)

\* ai/mod.rs:39-44: the text becomes group 1 of the first match, trimmed
UnwrapCodeBlock(s) ==
    LET i == FirstFence(s, 1)
    IN  IF i = 0 THEN s
        ELSE LET b == FenceInner(s, i)
                 e == FenceClose(s, b)
             IN  Trim(SubSeq(s, b, e - 1))

\* a span d^k ([^d]+) d^k starts at index p, d one of delims
SpanAt(s, p, delims, k) ==
    /\ s[p] \in delims
    /\ AllAt(s, p, k, s[p])
    /\ LET e == RunEnd(s, p + k, s[p])
       IN  e > p + k /\ AllAt(s, e, k, s[p])

\* Regex::replace_all of the spans by their inner text: the matches are
\* taken leftmost first and do not overlap
RECURSIVE StripSpansFrom(_, _, _, _, _)
StripSpansFrom(s, p, delims, k, acc) ==
    IF p > Len(s) THEN acc
    ELSE IF SpanAt(s, p, delims, k)
         THEN LET e == RunEnd(s, p + k, s[p])
              IN  StripSpansFrom(s, e + k, delims, k,
                                 acc \o SubSeq(s, p + k, e - 1))
         ELSE StripSpansFrom(s, p + 1, delims, k, Append(acc, s[p]))

StripSpans(s, delims, k) == StripSpansFrom(s, 1, delims, k, <<>>)

\* ai/mod.rs:47-48: \*\*([^*]+)\*\*|__([^_]+)__  ->  $1$2
StripBold(s) == StripSpans(s, {"*", "_"}, 2)
\* ai/mod.rs:51-52: \*([^*]+)\*  ->  $1
StripItalicAsterisk(s) == StripSpans(s, {"*"}, 1)
\* ai/mod.rs:54-55: _([^_]+)_  ->  $1
StripItalicUnderscore(s) == StripSpans(s, {"_"}, 1)
\* a variant that leaves inline-code spans alone
KeepInlineCode(s) == s
\* ai/mod.rs:57-58: `([^`]+)`  ->  $1
StripInlineCode(s) == StripSpans(s, {Tick}, 1)

\* str::replace(pat, ""): every non-overlapping occurrence, from the left
RECURSIVE RemoveAllFrom(_, _, _, _)
RemoveAllFrom(s, p, pat, acc) ==
    IF p > Len(s) THEN acc
    ELSE IF p + Len(pat) - 1 <= Len(s) /\ SubSeq(s, p, p + Len(pat) - 1) = pat
         THEN RemoveAllFrom(s, p + Len(pat), pat, acc)
         ELSE RemoveAllFrom(s, p + 1, pat, Append(acc, s[p]))

RemoveAll(s, pat) == RemoveAllFrom(s, 1, pat, <<>>)

\* ai/mod.rs:60
RemoveStrayMarkers(s) ==
    RemoveAll(RemoveAll(RemoveAll(RemoveAll(s, <<"*", "*">>), <<"_", "_">>),
                        <<"*">>), <<"_">>)

\* ai/mod.rs:62-63: \s+  ->  " "
RECURSIVE CollapseFrom(_, _, _)
CollapseFrom(s, p, acc) ==
    IF p > Len(s) THEN acc
    ELSE IF IsSpace(s[p])
         THEN CollapseFrom(s, SkipSpace(s, p), Append(acc, " "))
         ELSE CollapseFrom(s, p + 1, Append(acc, s[p]))

\* a variant that matches \s instead of \s+: every whitespace character
\* becomes a space and runs are kept
CollapseEachWhitespace(s) ==
    [i \in 1..Len(s) |-> IF IsSpace(s[i]) THEN " " ELSE s[i]]

CollapseWhitespace(s) == CollapseFrom(s, 1, <<>>)

\* ai/mod.rs:36-66
sanitize_commit_message(message) ==
    Trim(CollapseWhitespace(RemoveStrayMarkers(StripInlineCode(
        StripItalicUnderscore(StripItalicAsterisk(StripBold(
            UnwrapCodeBlock(Trim(message)))))))))

(***************************************************************************)
(* The messages the model draws: every text of up to MaxMsgLen characters, *)
(* texts with one fenced block (text, fence, text, fence, text) and texts  *)
(* made of up to MaxPieces plain characters and markdown spans.            *)
(***************************************************************************)

MaxMsgLen == 5

Messages == UNION { [1..n -> Alphabet] : n \in 0..MaxMsgLen }

MaxFencePart == 1

Fence == <<Tick, Tick, Tick>>

FenceParts == UNION { [1..n -> {"a", ":", " ", Tick}] : n \in 0..MaxFencePart }

FencedMessages ==
    { pre \o Fence \o mid \o Fence \o post :
        pre \in FenceParts, mid \in FenceParts, post \in FenceParts }

MaxPieces == 3

\* plain characters and the five kinds of span, as in the message of
\* test_sanitize_mixed_formatting
SpanPieces ==
    { <<"a">>, <<":">>, <<" ">>,
      <<"*", "*", "a", "*", "*">>, <<"_", "_", "a", "_", "_">>,
      <<"*", "a", "*">>, <<"_", "a", "_">>, <<Tick, "a", Tick>>,
      <<"*", "*", "a", " ", ":", "*", "*">>, <<"_", ":", "\n", "a", "_">>,
      <<Tick, " ", "a", Tick>> }

RECURSIVE Concat(_, _)
Concat(ps, i) == IF i > Len(ps) THEN <<>> ELSE ps[i] \o Concat(ps, i + 1)

SpanMessages ==
    { Concat(ps, 1) : ps \in UNION { [1..n -> SpanPieces] : n \in 0..MaxPieces } }

SanInit ==
    /\ sanIn \in Messages \cup FencedMessages \cup SpanMessages
    /\ sanPrev = sanIn
    /\ sanText = sanIn
    /\ sanPc = "input"

SanIdle ==
    /\ sanIn = <<>>
    /\ sanPrev = <<>>
    /\ sanText = <<>>
    /\ sanPc = "idle"

\* one call of sanitize_commit_message on the current text
Sanitize ==
    /\ sanPc \in {"input", "once"}
    /\ sanPrev' = sanText
    /\ sanText' = sanitize_commit_message(sanText)
    /\ sanPc' = IF sanPc = "input" THEN "once" ELSE "twice"
    /\ UNCHANGED sanIn

(***************************************************************************)
(* Configuration (config.rs:12-67).                                        *)
(***************************************************************************)

\* provider names a configuration may hold; "gemini" stands for every name
\* that is neither "openai" nor "claude"
ProviderNames == {"openai", "claude", "gemini"}
SupportedProviders == {"openai", "claude"}

\* config.rs:13-16 (the model override plays no part in the outcome of a call)
ProviderConfigs == [api_key : {"", "sk"}]

\* config.rs:19-26: the configurations load_config can return: any active
\* name with any map of provider entries
Configs ==
    UNION { [active_provider : ProviderNames, providers : [ns -> ProviderConfigs]]
            : ns \in SUBSET ProviderNames }

Ok(v) == [ok |-> TRUE, value |-> v]
Err(e) == [ok |-> FALSE, err |-> e]

\* error.rs:17-27
ConfigApiKeyNotSet(p) == [kind |-> "ConfigApiKeyNotSet", provider |-> p]
ConfigProviderNotFound(p) == [kind |-> "ConfigProviderNotFound", provider |-> p]
ConfigInvalidJson(d) == [kind |-> "ConfigInvalidJson", details |-> d]
ApiNetworkError(p, d) == [kind |-> "ApiNetworkError", provider |-> p, details |-> d]
ApiAuthError(p) == [kind |-> "ApiAuthError", provider |-> p]
ApiResponseError(p, d) == [kind |-> "ApiResponseError", provider |-> p, details |-> d]
ApiNoResponse(p) == [kind |-> "ApiNoResponse", provider |-> p]
ApiUnsupportedProvider(p) == [kind |-> "ApiUnsupportedProvider", provider |-> p]

\* config.rs:53-67
get_active_provider_config(cfg) ==
    LET provider == cfg.active_provider
    IN  IF provider \notin DOMAIN cfg.providers
        THEN Err(ConfigProviderNotFound(provider))
        ELSE IF cfg.providers[provider].api_key = ""
        THEN Err(ConfigApiKeyNotSet(provider))
        ELSE Ok([name |-> provider, provider_config |-> cfg.providers[provider]])

(***************************************************************************)
(* HTTP responses.  A body is either a text that is no JSON document of    *)
(* the expected kind, or a JSON document with the fields the two response  *)
(* schemas read.  A field that is missing from the document is Absent.     *)
(***************************************************************************)

\* an optional JSON field: Some(x) when the document has it, Absent when not
Some(x) == [some |-> TRUE, v |-> x]
Absent == [some |-> FALSE]
Optional(S) == { Some(x) : x \in S } \cup {Absent}

Statuses == {200, 201, 301, 401, 403, 429, 500}

\* reqwest StatusCode::is_success
IsSuccess(status) == status >= 200 /\ status <= 299

\* the texts a provider may generate
ProviderTexts == { <<"a", ":", " ", "a">>, <<" ", "*", "*", "a", "*", "*">> }

\* list lengths of the choices / content arrays the model draws
MaxItems == 2

\* usize, scaled down from the target's pointer width to UsizeBits bits
UsizeBits == 4
USIZE_MAX == 2 ^ UsizeBits - 1

\* the token counts a Claude response may report (claude.rs:44-45)
TokenCounts == {0, 3, USIZE_MAX}

\* usize + usize: the sum when it fits; on overflow a panic when the build
\* has overflow checks (the dev profile), the wrapped sum when it has none
\* (the release profile)
UsizeAdd(a, b, overflow_checks) ==
    IF a + b <= USIZE_MAX THEN Some(a + b)
    ELSE IF overflow_checks THEN Absent
    ELSE Some((a + b) % (USIZE_MAX + 1))

SeqsUpTo(S, n) == UNION { [1..k -> S] : k \in 0..n }

PlainBody(t) == [json |-> FALSE, raw |-> t]
\* String::default(), as a body
EmptyBody == PlainBody("")

\* openai.rs:23-39: {choices: [{message: {role, content}}], usage: {...}}
OpenAIChoices == [content : Optional(ProviderTexts)]
OpenAIUsages ==
    { [prompt_tokens |-> 3, completion_tokens |-> 4, total_tokens |-> 7],
      [prompt_tokens |-> 3, completion_tokens |-> 4, total_tokens |-> 9] }
OpenAIBodies ==
    [json : {TRUE}, schema : {"openai"},
     items : Optional(SeqsUpTo(OpenAIChoices, MaxItems)),
     usage : Optional(OpenAIUsages)]

\* claude.rs:29-46: {content: [{type, text}], usage: {...}}
ClaudeBlocks == [type : {"text", "tool_use"}, text : Optional(ProviderTexts)]
ClaudeUsages == [input_tokens : TokenCounts, output_tokens : TokenCounts]
ClaudeBodies ==
    [json : {TRUE}, schema : {"claude"},
     items : Optional(SeqsUpTo(ClaudeBlocks, MaxItems)),
     usage : Optional(ClaudeUsages)]

Bodies == {EmptyBody, PlainBody("oops")} \cup OpenAIBodies \cup ClaudeBodies

NoResponse == [status |-> 0, body |-> EmptyBody]

\* openai.rs:89 with 23-39: serde deserializes the body into OpenAIResponse
\* when every required field of every element is there
ParsesAsOpenAI(body) ==
    /\ body.json
    /\ body.schema = "openai"
    /\ body.items.some
    /\ \A i \in 1..Len(body.items.v) : body.items.v[i].content.some
    /\ body.usage.some

\* claude.rs:98 with 29-46
ParsesAsClaude(body) ==
    /\ body.json
    /\ body.schema = "claude"
    /\ body.items.some
    /\ \A i \in 1..Len(body.items.v) : body.items.v[i].text.some
    /\ body.usage.some

AiResponse(message, usage) == [message |-> message, usage |-> usage]
TokenUsage(i, o, t) == [input_tokens |-> i, output_tokens |-> o, total_tokens |-> t]

\* openai.rs:75 and claude.rs:84: response.text().await.unwrap_or_default()
ErrorText(body, readOk) == IF readOk THEN body ELSE EmptyBody

\* a variant that treats 401 alone as an authentication failure
NonSuccessErrorOnly401(provider, status, body, readOk) ==
    LET error_text == ErrorText(body, readOk)
    IN  IF status = 401
        THEN Err(ApiAuthError(provider))
        ELSE Err(ApiResponseError(provider, error_text))

\* openai.rs:73-87 and claude.rs:82-96: a status that is not 2xx
NonSuccessError(provider, status, body, readOk) ==
    LET error_text == ErrorText(body, readOk)
    IN  IF status = 401 \/ status = 403
        THEN Err(ApiAuthError(provider))
        ELSE Err(ApiResponseError(provider, error_text))

\* a variant that lets the parse failure convert through
\* From<serde_json::Error> (error.rs:131-135)
ParseErrorAsInvalidJson(provider) ==
    Err(ConfigInvalidJson("Failed to parse response"))

\* openai.rs:89-93 and claude.rs:98-102: the body does not deserialize
ParseError(provider) ==
    Err(ApiResponseError(provider, "Failed to parse response"))

\* openai.rs:95-111
OpenAIExtract(body) ==
    IF Len(body.items.v) >= 1
    THEN LET message == Trim(body.items.v[1].content.v)
             sanitized_message == sanitize_commit_message(message)
         IN  Ok(AiResponse(sanitized_message,
                           TokenUsage(body.usage.v.prompt_tokens,
                                      body.usage.v.completion_tokens,
                                      body.usage.v.total_tokens)))
    ELSE Err(ApiNoResponse("OpenAI"))

\* the call did not return: it unwound with a panic
Unwound == [ok |-> FALSE, err |-> [kind |-> "panic"]]

\* claude.rs:106-113: the AiResponse built from the first block
ClaudeResponseOf(body, overflow_checks) ==
    LET total == UsizeAdd(body.usage.v.input_tokens,
                          body.usage.v.output_tokens, overflow_checks)
    IN  IF total.some
        THEN Ok(AiResponse(Trim(body.items.v[1].text.v),
                           TokenUsage(body.usage.v.input_tokens,
                                      body.usage.v.output_tokens,
                                      total.v)))
        ELSE Unwound

\* a variant that takes the first block whatever its type tag
ClaudeExtractAnyType(body, overflow_checks) ==
    IF Len(body.items.v) >= 1
    THEN ClaudeResponseOf(body, overflow_checks)
    ELSE Err(ApiNoResponse("Claude"))

\* claude.rs:104-119
ClaudeExtract(body, overflow_checks) ==
    IF Len(body.items.v) >= 1 /\ body.items.v[1].type = "text"
    THEN ClaudeResponseOf(body, overflow_checks)
    ELSE Err(ApiNoResponse("Claude"))

\* openai.rs:73-111: call_openai_api once the response has arrived
call_openai_api(status, body, readOk) ==
    IF ~IsSuccess(status) THEN NonSuccessError("OpenAI", status, body, readOk)
    ELSE IF ~readOk \/ ~ParsesAsOpenAI(body) THEN ParseError("OpenAI")
    ELSE OpenAIExtract(body)

\* claude.rs:82-119: call_claude_api once the response has arrived
call_claude_api(status, body, readOk, overflow_checks) ==
    IF ~IsSuccess(status) THEN NonSuccessError("Claude", status, body, readOk)
    ELSE IF ~readOk \/ ~ParsesAsClaude(body) THEN ParseError("Claude")
    ELSE ClaudeExtract(body, overflow_checks)

\* variants whose catch-all arm falls back to a provider
DispatchDefaultOpenAI(provider_name) ==
    IF provider_name = "claude" THEN "Claude" ELSE "OpenAI"

DispatchDefaultClaude(provider_name) ==
    IF provider_name = "openai" THEN "OpenAI" ELSE "Claude"

\* ai/mod.rs:27-33: the match on the provider name
Dispatch(provider_name) ==
    CASE provider_name = "openai" -> "OpenAI"
      [] provider_name = "claude" -> "Claude"
      [] OTHER -> "unsupported"

(***************************************************************************)
(* One invocation of call_ai (ai/mod.rs:24-34).                            *)
(***************************************************************************)

AiInit ==
    /\ config \in Configs
    /\ pc = "idle"
    /\ inflight = "none"
    /\ posts = 0
    /\ response = NoResponse
    /\ bodyRead = "pending"
    /\ result = Ok("none")

AiIdle ==
    /\ config = [active_provider |-> "openai", providers |-> <<>>]
    /\ pc = "off"
    /\ inflight = "none"
    /\ posts = 0
    /\ response = NoResponse
    /\ bodyRead = "pending"
    /\ result = Ok("none")

\* ai/mod.rs:24-34 up to the first await: the configuration is looked up,
\* the provider is matched and the variant issues its POST (openai.rs:62-67,
\* claude.rs:70-76)
CallAi ==
    /\ pc = "idle"
    /\ LET r == get_active_provider_config(config)
       IN  IF ~r.ok
           THEN /\ result' = r
                /\ pc' = "done"
                /\ UNCHANGED <<inflight, posts>>
           ELSE IF Dispatch(r.value.name) = "unsupported"
           THEN /\ result' = Err(ApiUnsupportedProvider(r.value.name))
                /\ pc' = "done"
                /\ UNCHANGED <<inflight, posts>>
           ELSE /\ inflight' = Dispatch(r.value.name)
                /\ posts' = posts + 1
                /\ pc' = "sending"
                /\ UNCHANGED result
    /\ UNCHANGED <<config, response, bodyRead>>

\* a variant of SendFails that issues the request again after a transport
\* failure, up to three times
SendFailsRetry ==
    /\ pc = "sending"
    /\ IF posts < 3
       THEN posts' = posts + 1 /\ pc' = "sending" /\ UNCHANGED result
       ELSE /\ result' = Err(ApiNetworkError(inflight, "transport"))
            /\ pc' = "done"
            /\ UNCHANGED posts
    /\ UNCHANGED <<config, inflight, response, bodyRead>>

\* openai.rs:68-71, claude.rs:77-80: send() fails (connection, DNS, TLS)
SendFails ==
    /\ pc = "sending"
    /\ result' = Err(ApiNetworkError(inflight, "transport"))
    /\ pc' = "done"
    /\ UNCHANGED <<config, inflight, posts, response, bodyRead>>

\* send() returns a response: the server answered with a status and a body
ResponseArrives ==
    /\ pc = "sending"
    /\ \E st \in Statuses, b \in Bodies :
           response' = [status |-> st, body |-> b]
    /\ pc' = "reading"
    /\ UNCHANGED <<config, inflight, posts, bodyRead, result>>

\* openai.rs:73-111, claude.rs:82-119: the body is read (text() or json())
\* and the variant returns, or unwinds in the addition of claude.rs:112
BodyRead ==
    /\ pc = "reading"
    /\ \E readOk \in BOOLEAN, overflow_checks \in BOOLEAN :
           LET r == IF inflight = "OpenAI"
                    THEN call_openai_api(response.status, response.body, readOk)
                    ELSE call_claude_api(response.status, response.body,
                                         readOk, overflow_checks)
           IN  /\ bodyRead' = IF readOk THEN "ok" ELSE "failed"
               /\ IF r = Unwound
                  THEN pc' = "panicked" /\ UNCHANGED result
                  ELSE pc' = "done" /\ result' = r
    /\ UNCHANGED <<config, inflight, posts, response>>

(***************************************************************************)
(* The prompt builders (prompts.rs:61-118).                                *)
(*                                                                         *)
(* A prompt text is a sequence of tokens: a token is a placeholder of the  *)
(* templates, a line feed, or a piece of literal text that holds no        *)
(* placeholder and no line feed.                                           *)
(***************************************************************************)

ContextLabel == "Additional context: "

\* prompts.rs:15-33, with the rules above the style instructions as one token
BASE_PROMPT_TEMPLATE ==
    << "commit message rules", "\n", "\n", "{style_instructions}", "\n", "\n",
       ContextLabel, "{context}", "\n", "\n",
       "Files changed:", "\n", "{files_changed}", "\n", "\n",
       "Diff:", "\n", "{diff}" >>

\* prompts.rs:36-58, with the rules and patterns as one token
BRANCH_NAME_TEMPLATE ==
    << "branch name rules", "\n", "\n",
       ContextLabel, "{context}", "\n", "\n",
       "Files changed:", "\n", "{files_changed}", "\n", "\n",
       "Diff:", "\n", "{diff}" >>

\* cli.rs:66-73 and the Option around it
Styles == {"None", "Standard", "Detailed", "Short"}

\* main.rs:124-133: the CommitStyle of main.rs has a fourth variant
MainStyles == Styles \cup {"Emoji"}

\* a variant whose default is the Short entry
get_style_instructions_default_short(st) ==
    IF st = "Detailed"
    THEN << "Create a detailed multi-line commit message following Git convention:" >>
    ELSE IF st = "Standard"
    THEN << "Use standard conventional commits format: 'type(scope): description'", "\n",
            "Common types: feat, fix, docs, style, refactor, test, chore" >>
    ELSE << "Create an extremely concise one-line commit message.", "\n",
            "Maximum 50 characters. Be direct and specific." >>

\* prompts.rs:61-87: one token per line of the returned text
get_style_instructions(st) ==
    CASE st \in {"Standard", "None"} ->
             << "Use standard conventional commits format: 'type(scope): description'", "\n",
                "Common types: feat, fix, docs, style, refactor, test, chore" >>
      [] st = "Detailed" ->
             << "Create a detailed multi-line commit message following Git convention:", "\n",
                "- First line: Short summary in conventional commits format (max 50 chars)", "\n",
                "- Second line: MUST be blank", "\n",
                "- Following lines: Detailed explanation of what changed and why", "\n",
                "- Use bullet points with '- ' for listing changes", "\n",
                "- Wrap lines at 72 characters", "\n",
                "\n",
                "Example format:", "\n",
                "feat(auth): add JWT token validation", "\n",
                "\n",
                "- Implement token verification middleware", "\n",
                "- Add expiration checking", "\n",
                "- Handle refresh token logic" >>
      [] st = "Short" ->
             << "Create an extremely concise one-line commit message.", "\n",
                "Maximum 50 characters. Be direct and specific." >>

\* main.rs:747-765: the copy of get_style_instructions in main.rs
main_get_style_instructions(st) ==
    CASE st = "Standard" ->
             << "Use standard conventional commits format: 'type(scope): description'" >>
      [] st = "Detailed" ->
             << "Create a detailed multi-line commit message with a summary line followed by empty line and bullet points explaining the changes" >>
      [] st = "Short" ->
             << "Create an extremely concise one-line commit message" >>
      [] st = "Emoji" ->
             << "Include appropriate emojis in the commit message" >>
      [] st = "None" ->
             << "Use standard conventional commits format: 'type(scope): description'" >>

\* main.rs:693-705: the prompt run_commit_flow formats itself; format! puts
\* each argument in its own place, and an absent --context is the empty text
run_commit_flow_prompt(st, ctx, files, d) ==
    << "Generate a concise and descriptive git commit message for the following changes.", "\n",
       "Follow the conventional commits format (type: description).", "\n" >>
    \o main_get_style_instructions(st)
    \o << "\n", ContextLabel >> \o ctx
    \o << "\n", "Files changed:", "\n" >> \o files
    \o << "\n", "\n", "Diff:", "\n" >> \o d

\* str::replace(from, to): every occurrence of the placeholder, from the left
RECURSIVE Replace(_, _, _)
Replace(s, from, to) ==
    IF s = <<>> THEN <<>>
    ELSE (IF Head(s) = from THEN to ELSE <<Head(s)>>)
         \o Replace(Tail(s), from, to)

\* a variant that substitutes the context as it is
ContextTextRaw(ctx) == ctx

\* prompts.rs:97 and 112
ContextText(ctx) == IF ctx = <<>> THEN <<"None">> ELSE ctx

\* prompts.rs:90-104
build_commit_prompt(st, ctx, files, d) ==
    LET style_instructions == get_style_instructions(st)
        context_text == ContextText(ctx)
    IN  Replace(Replace(Replace(Replace(BASE_PROMPT_TEMPLATE,
            "{style_instructions}", style_instructions),
            "{context}", context_text),
            "{files_changed}", files),
            "{diff}", d)

\* prompts.rs:107-118
build_branch_prompt(ctx, files, d) ==
    LET context_text == ContextText(ctx)
    IN  Replace(Replace(Replace(BRANCH_NAME_TEMPLATE,
            "{context}", context_text),
            "{files_changed}", files),
            "{diff}", d)

\* the tokens of the arguments: text, the context label (a diff of
\* prompts.rs holds it) and placeholders of the templates
PromptTokens == {"x", ContextLabel, "{context}", "{files_changed}", "{diff}"}

MaxPromptLen == 1

PromptTexts == UNION { [1..n -> PromptTokens] : n \in 0..MaxPromptLen }

PromptInit ==
    /\ style \in MainStyles
    /\ context \in PromptTexts
    /\ files_changed \in PromptTexts
    /\ promptDiff \in PromptTexts
    /\ prompt = <<>>
    /\ ppc = "input"

PromptIdle ==
    /\ style = "None"
    /\ context = <<>>
    /\ files_changed = <<>>
    /\ promptDiff = <<>>
    /\ prompt = <<>>
    /\ ppc = "idle"

\* one call of build_commit_prompt
BuildCommitPrompt ==
    /\ ppc = "input"
    /\ style \in Styles
    /\ prompt' = build_commit_prompt(style, context, files_changed, promptDiff)
    /\ ppc' = "commit"
    /\ UNCHANGED <<style, context, files_changed, promptDiff>>

\* one call of build_branch_prompt
BuildBranchPrompt ==
    /\ ppc = "input"
    /\ prompt' = build_branch_prompt(context, files_changed, promptDiff)
    /\ ppc' = "branch"
    /\ UNCHANGED <<style, context, files_changed, promptDiff>>

\* main.rs:693-705: run_commit_flow builds its prompt
BuildMainPrompt ==
    /\ ppc = "input"
    /\ prompt' = run_commit_flow_prompt(style, context, files_changed, promptDiff)
    /\ ppc' = "main"
    /\ UNCHANGED <<style, context, files_changed, promptDiff>>

(***************************************************************************)
(* Branch-name sanitization, after the specification's description of it:  *)
(* spaces and underscores become hyphens, every character other than       *)
(* alphanumerics, hyphen and slash is stripped, the text is lowercased,     *)
(* repeated hyphens are collapsed, leading and trailing hyphens trimmed.   *)
(* The characters of the model: "a" and "1" (lowercase letter, digit),     *)
(* "A" (uppercase letter), "-", "/", " ", "_" and "!" (punctuation).       *)
(***************************************************************************)

BranchAlphabet == {"a", "A", "1", "-", "/", " ", "_", "!"}

SpacesToHyphens(s) ==
    [i \in 1..Len(s) |-> IF s[i] \in {" ", "_"} THEN "-" ELSE s[i]]

StripOtherCharacters(s) ==
    SelectSeq(s, LAMBDA ch : ch \in {"a", "A", "1", "-", "/"})

Lowercase(s) == [i \in 1..Len(s) |-> IF s[i] = "A" THEN "a" ELSE s[i]]

RECURSIVE CollapseHyphens(_)
CollapseHyphens(s) ==
    IF Len(s) < 2 THEN s
    ELSE IF s[1] = "-" /\ s[2] = "-" THEN CollapseHyphens(Tail(s))
    ELSE <<s[1]>> \o CollapseHyphens(Tail(s))

RECURSIVE TrimHyphens(_)
TrimHyphens(s) ==
    IF s = <<>> THEN s
    ELSE IF s[1] = "-" THEN TrimHyphens(Tail(s))
    ELSE IF s[Len(s)] = "-" THEN TrimHyphens(SubSeq(s, 1, Len(s) - 1))
    ELSE s

\* a variant that strips the other characters last, after the hyphens were
\* collapsed and trimmed
sanitize_branch_name_strip_last(s) ==
    StripOtherCharacters(TrimHyphens(CollapseHyphens(Lowercase(
        SpacesToHyphens(s)))))

sanitize_branch_name(s) ==
    TrimHyphens(CollapseHyphens(Lowercase(StripOtherCharacters(
        SpacesToHyphens(s)))))

MaxBranchLen == 4

BranchTexts == UNION { [1..n -> BranchAlphabet] : n \in 0..MaxBranchLen }

BranchInit ==
    /\ branchIn \in BranchTexts
    /\ branchOut = <<>>
    /\ bpc = "input"

BranchIdle ==
    /\ branchIn = <<>>
    /\ branchOut = <<>>
    /\ bpc = "idle"

\* one sanitization of a generated branch name
SanitizeBranch ==
    /\ bpc = "input"
    /\ branchOut' = sanitize_branch_name(branchIn)
    /\ bpc' = "done"
    /\ UNCHANGED branchIn

(***************************************************************************)
(* The commit flow of main.rs (run_commit_flow, main.rs:635-745), with the *)
(* copies of call_ai and sanitize_commit_message that main.rs holds.       *)
(* git, the provider and the user are nondeterministic.                    *)
(***************************************************************************)

\* main.rs:905-914: the sanitizer of main.rs unwraps the first fenced block
\* and trims; it strips no emphasis
main_sanitize_commit_message(message) ==
    LET i == FirstFence(message, 1)
    IN  IF i = 0 THEN Trim(message)
        ELSE LET b == FenceInner(message, i)
                 e == FenceClose(message, b)
             IN  Trim(SubSeq(message, b, e - 1))

\* main.rs:853-961: what call_ai returns for the text x of the provider's
\* first choice or block: the OpenAI variant sanitizes (main.rs:897-898),
\* the Claude variant only trims (main.rs:955-956)
main_call_ai(provider, x) ==
    IF provider = "OpenAI" THEN main_sanitize_commit_message(Trim(x))
    ELSE Trim(x)

\* texts a provider generates, a user passes with -m or leaves in the editor
FlowTexts ==
    { <<"a">>, <<"a", ":", " ", "a">>,
      <<Tick, Tick, Tick, "\n", "a", "\n", Tick, Tick, Tick>>,
      <<"a", " ", Tick, Tick, Tick, ":", Tick, Tick, Tick>> }

\* main.rs:70-121: the options of Cli that run_commit_flow branches on
Clis ==
    [dry_run : BOOLEAN, yes : BOOLEAN, push : BOOLEAN,
     message : Optional(FlowTexts)]

FlowInit ==
    /\ cli \in Clis
    /\ fpc = "start"
    /\ answer = "none"
    /\ edited = <<>>
    /\ generated = <<>>
    /\ displayed = Absent
    /\ committed = Absent
    /\ commit_calls = 0
    /\ push_calls = 0
    /\ ai_calls = 0

FlowIdle ==
    /\ cli = [dry_run |-> FALSE, yes |-> FALSE, push |-> FALSE, message |-> Absent]
    /\ fpc = "idle"
    /\ answer = "none"
    /\ edited = <<>>
    /\ generated = <<>>
    /\ displayed = Absent
    /\ committed = Absent
    /\ commit_calls = 0
    /\ push_calls = 0
    /\ ai_calls = 0

\* main.rs:636-657: staging, and the check that something is staged
StageAndCheck ==
    /\ fpc = "start"
    /\ \E staged \in BOOLEAN : fpc' = IF staged THEN "staged" ELSE "failed"
    /\ UNCHANGED <<cli, answer, edited, generated, displayed, committed,
                   commit_calls, push_calls, ai_calls>>

\* commit_changes(message, ..) and, when it succeeded and --push is set,
\* push_changes (main.rs:665-670 and 733-738)
CommitAndPush(message, commitOk, pushOk) ==
    /\ commit_calls' = commit_calls + 1
    /\ committed' = Some(message)
    /\ push_calls' = IF commitOk /\ cli.push THEN push_calls + 1 ELSE push_calls
    /\ fpc' = IF commitOk /\ (cli.push => pushOk) THEN "done" ELSE "failed"

\* a variant of CommitManual that commits without looking at --dry-run
CommitManualAlways ==
    /\ fpc = "staged"
    /\ cli.message.some
    /\ \E commitOk \in BOOLEAN, pushOk \in BOOLEAN :
           CommitAndPush(cli.message.v, commitOk, pushOk)
    /\ UNCHANGED <<cli, answer, edited, generated, displayed, ai_calls>>

\* main.rs:659-673: a message given with -m is used directly
CommitManual ==
    /\ fpc = "staged"
    /\ cli.message.some
    /\ IF cli.dry_run
       THEN /\ displayed' = cli.message
            /\ fpc' = "done"
            /\ UNCHANGED <<committed, commit_calls, push_calls>>
       ELSE /\ \E commitOk \in BOOLEAN, pushOk \in BOOLEAN :
                   CommitAndPush(cli.message.v, commitOk, pushOk)
            /\ UNCHANGED displayed
    /\ UNCHANGED <<cli, answer, edited, generated, ai_calls>>

\* a variant of GetChanges that does not look at -m
GetChangesAlways ==
    /\ fpc = "staged"
    /\ \E outcome \in {"error", "empty", "panic", "changes"} :
           fpc' = CASE outcome \in {"error", "empty"} -> "failed"
                    [] outcome = "panic" -> "panicked"
                    [] outcome = "changes" -> "prompted"
    /\ UNCHANGED <<cli, answer, edited, generated, displayed, committed,
                   commit_calls, push_calls, ai_calls>>

\* main.rs:675-705: without -m the diff is read (git may fail, the diff may
\* be empty), shown and truncated (the slices of show_changes and of
\* smart_truncate_diff may panic) and the prompt is built
GetChanges ==
    /\ fpc = "staged"
    /\ ~cli.message.some
    /\ \E outcome \in {"error", "empty", "panic", "changes"} :
           fpc' = CASE outcome \in {"error", "empty"} -> "failed"
                    [] outcome = "panic" -> "panicked"
                    [] outcome = "changes" -> "prompted"
    /\ UNCHANGED <<cli, answer, edited, generated, displayed, committed,
                   commit_calls, push_calls, ai_calls>>

\* main.rs:709-719: the configuration is loaded, call_ai is awaited and the
\* sanitized message is printed
Generate ==
    /\ fpc = "prompted"
    /\ \/ /\ fpc' = "failed"                       \* load_config fails
          /\ UNCHANGED <<generated, displayed, ai_calls>>
       \/ /\ ai_calls' = ai_calls + 1               \* call_ai returns Err
          /\ fpc' = "failed"
          /\ UNCHANGED <<generated, displayed>>
       \/ /\ ai_calls' = ai_calls + 1               \* call_ai returns Ok
          /\ \E provider \in {"OpenAI", "Claude"}, x \in FlowTexts :
                 /\ generated' = main_call_ai(provider, x)
                 /\ displayed' =
                        Some(main_sanitize_commit_message(main_call_ai(provider, x)))
          /\ fpc' = "shown"
    /\ UNCHANGED <<cli, answer, edited, committed, commit_calls, push_calls>>

\* main.rs:722-723: with --dry-run nothing is committed
DryRunEnd ==
    /\ fpc = "shown"
    /\ cli.dry_run
    /\ fpc' = "done"
    /\ UNCHANGED <<cli, answer, edited, generated, displayed, committed,
                   commit_calls, push_calls, ai_calls>>

\* main.rs:725-738 with --yes: the generated message is committed unasked
AutoCommit ==
    /\ fpc = "shown"
    /\ ~cli.dry_run
    /\ cli.yes
    /\ \E commitOk \in BOOLEAN, pushOk \in BOOLEAN :
           CommitAndPush(generated, commitOk, pushOk)
    /\ UNCHANGED <<cli, answer, edited, generated, displayed, ai_calls>>

\* main.rs:785-811: confirm_commit on the trimmed, lowercased line `input`
\* ("unreadable": stdout or stdin failed).  On "e" the temporary file is
\* emptied and the editor run on it; the file is never read back, so the
\* result does not depend on the edited text.
confirm_commit(input, editorOk) ==
    IF input = "unreadable" THEN Err("io")
    ELSE IF input = "e"
         THEN IF editorOk THEN Ok(TRUE)
              ELSE Err("Failed to edit commit message")
         ELSE Ok(input = "" \/ input = "y")

\* main.rs:729-741: without --yes the user is asked; `message` is committed
\* when confirm_commit returned Ok(true)
Confirm ==
    /\ fpc = "shown"
    /\ ~cli.dry_run
    /\ ~cli.yes
    /\ \E input \in {"", "y", "n", "e", "unreadable"},
          text \in FlowTexts, editorOk \in BOOLEAN :
           LET should_commit == confirm_commit(input, editorOk)
           IN  /\ answer' = input
               /\ edited' = IF input = "e" THEN text ELSE edited
               /\ IF ~should_commit.ok
                  THEN /\ fpc' = "failed"
                       /\ UNCHANGED <<committed, commit_calls, push_calls>>
                  ELSE IF should_commit.value
                  THEN \E commitOk \in BOOLEAN, pushOk \in BOOLEAN :
                           CommitAndPush(generated, commitOk, pushOk)
                  ELSE /\ fpc' = "done"
                       /\ UNCHANGED <<committed, commit_calls, push_calls>>
    /\ UNCHANGED <<cli, generated, displayed, ai_calls>>

(***************************************************************************)
(* The configuration (config.rs) and the operations that change it, with   *)
(* use_provider of main.rs.  An operation yields whether it returned Ok    *)
(* and the configuration it leaves behind.                                 *)
(***************************************************************************)

\* config.rs:12-16 with its derived Default
ProviderConfigDefault == [api_key |-> "", model |-> Absent]

\* config.rs:28-35 with its derived Default
PreferencesDefault ==
    [auto_push |-> Absent, auto_stage_all |-> Absent, show_diff |-> Absent,
     skip_confirmation |-> Absent, verbose |-> Absent]

\* config.rs:37-50
ConfigDefault ==
    [active_provider |-> "openai",
     providers |-> [p \in {"openai"} |-> ProviderConfigDefault],
     max_tokens |-> Some(300),
     default_style |-> Absent,
     preferences |-> PreferencesDefault]

\* config.rs:70-71 and 86-87: providers.entry(provider).or_insert_with(default)
EntryOrDefault(providers, provider) ==
    [p \in DOMAIN providers \cup {provider} |->
        IF p \in DOMAIN providers THEN providers[p] ELSE ProviderConfigDefault]

\* config.rs:69-83
set_provider(c, provider, api_key, model) ==
    LET entered == EntryOrDefault(c.providers, provider)
        withKey == IF api_key.some
                   THEN [entered[provider] EXCEPT !.api_key = api_key.v]
                   ELSE entered[provider]
        withModel == IF model.some
                     THEN [withKey EXCEPT !.model = Some(model.v)]
                     ELSE withKey
    IN  [ok |-> TRUE,
         config |-> [c EXCEPT !.providers = [entered EXCEPT ![provider] = withModel],
                              !.active_provider = provider]]

\* config.rs:85-91
update_key(c, provider, api_key) ==
    LET entered == EntryOrDefault(c.providers, provider)
    IN  [ok |-> TRUE,
         config |-> [c EXCEPT !.providers =
                        [entered EXCEPT ![provider].api_key = api_key]]]

\* config.rs:93-96
set_max_tokens(c, tokens) ==
    [ok |-> TRUE, config |-> [c EXCEPT !.max_tokens = Some(tokens)]]

\* config.rs:98-108
set_preference(c, key, value) ==
    IF key \in {"auto_push", "auto_stage_all", "show_diff",
                "skip_confirmation", "verbose"}
    THEN [ok |-> TRUE, config |-> [c EXCEPT !.preferences[key] = Some(value)]]
    ELSE [ok |-> FALSE, config |-> c]

\* config.rs:110-121
set_default_style(c, st) ==
    IF st \in {"standard", "conventional", "detailed", "short"}
    THEN LET normalized == IF st = "conventional" THEN "standard" ELSE st
         IN  [ok |-> TRUE, config |-> [c EXCEPT !.default_style = Some(normalized)]]
    ELSE [ok |-> FALSE, config |-> c]

\* a variant of use_provider that switches without looking the provider up
use_provider_unchecked(c, provider, loadOk, saveOk) ==
    IF ~loadOk THEN [ok |-> FALSE, config |-> c]
    ELSE IF saveOk
         THEN [ok |-> TRUE, config |-> [c EXCEPT !.active_provider = provider]]
         ELSE [ok |-> FALSE, config |-> c]

\* main.rs:436-449: the stored configuration c is loaded (which may fail),
\* changed in memory and saved (which may fail and then leaves c stored)
use_provider(c, provider, loadOk, saveOk) ==
    IF ~loadOk THEN [ok |-> FALSE, config |-> c]
    ELSE IF provider \notin DOMAIN c.providers
         THEN [ok |-> FALSE, config |-> c]
         ELSE IF saveOk
              THEN [ok |-> TRUE,
                    config |-> [c EXCEPT !.active_provider = provider]]
              ELSE [ok |-> FALSE, config |-> c]

\* the arguments the operations are called with
ApiKeys == {"", "sk"}
ModelNames == {"m"}
TokenLimits == {1, 300}
PreferenceKeys == {"auto_push", "verbose", "colour"}
StyleNames == {"standard", "conventional", "detailed", "short", "emoji"}

ConfInit ==
    /\ conf = ConfigDefault
    /\ lastOp = [op |-> "none", ok |-> TRUE]

ConfIdle ==
    /\ conf = ConfigDefault
    /\ lastOp = [op |-> "idle", ok |-> TRUE]

\* one call of an operation: its result is recorded, its configuration kept
Applied(name, r) ==
    /\ conf' = r.config
    /\ lastOp' = [op |-> name, ok |-> r.ok]

SetProvider ==
    \E provider \in ProviderNames, api_key \in Optional(ApiKeys),
       model \in Optional(ModelNames) :
        Applied("set_provider", set_provider(conf, provider, api_key, model))

UpdateKey ==
    \E provider \in ProviderNames, api_key \in ApiKeys :
        Applied("update_key", update_key(conf, provider, api_key))

SetMaxTokens ==
    \E tokens \in TokenLimits :
        Applied("set_max_tokens", set_max_tokens(conf, tokens))

SetPreference ==
    \E key \in PreferenceKeys, value \in BOOLEAN :
        Applied("set_preference", set_preference(conf, key, value))

SetDefaultStyle ==
    \E st \in StyleNames :
        Applied("set_default_style", set_default_style(conf, st))

UseProvider ==
    \E provider \in ProviderNames, loadOk \in BOOLEAN, saveOk \in BOOLEAN :
        Applied("use_provider", use_provider(conf, provider, loadOk, saveOk))

InitDiff == DiffInit /\ SanIdle /\ AiIdle /\ PromptIdle /\ BranchIdle /\ FlowIdle /\ ConfIdle
NextDiff == Truncate /\ UNCHANGED <<sanVars, aiVars, promptVars, branchVars, flowVars, confVars>>
SpecDiff == InitDiff /\ [][NextDiff]_vars

InitSan == SanInit /\ DiffIdle /\ AiIdle /\ PromptIdle /\ BranchIdle /\ FlowIdle /\ ConfIdle
NextSan == Sanitize /\ UNCHANGED <<diffVars, aiVars, promptVars, branchVars, flowVars, confVars>>
SpecSan == InitSan /\ [][NextSan]_vars

InitPrompt == PromptInit /\ DiffIdle /\ SanIdle /\ AiIdle /\ BranchIdle /\ FlowIdle /\ ConfIdle
NextPrompt ==
    \/ BuildCommitPrompt /\ UNCHANGED <<diffVars, sanVars, aiVars, branchVars, flowVars, confVars>>
    \/ BuildBranchPrompt /\ UNCHANGED <<diffVars, sanVars, aiVars, branchVars, flowVars, confVars>>
    \/ BuildMainPrompt /\ UNCHANGED <<diffVars, sanVars, aiVars, branchVars, flowVars, confVars>>
SpecPrompt == InitPrompt /\ [][NextPrompt]_vars

InitBranch ==
    BranchInit /\ DiffIdle /\ SanIdle /\ AiIdle /\ PromptIdle /\ FlowIdle /\ ConfIdle
NextBranch ==
    SanitizeBranch /\ UNCHANGED <<diffVars, sanVars, aiVars, promptVars, flowVars, confVars>>
SpecBranch == InitBranch /\ [][NextBranch]_vars

Init == AiInit /\ DiffIdle /\ SanIdle /\ PromptIdle /\ BranchIdle /\ FlowIdle /\ ConfIdle
Next ==
    \/ CallAi /\ UNCHANGED <<diffVars, sanVars, promptVars, branchVars, flowVars, confVars>>
    \/ SendFails /\ UNCHANGED <<diffVars, sanVars, promptVars, branchVars, flowVars, confVars>>
    \/ ResponseArrives /\ UNCHANGED <<diffVars, sanVars, promptVars, branchVars, flowVars, confVars>>
    \/ BodyRead /\ UNCHANGED <<diffVars, sanVars, promptVars, branchVars, flowVars, confVars>>
InitFlow ==
    FlowInit /\ DiffIdle /\ SanIdle /\ AiIdle /\ PromptIdle /\ BranchIdle
    /\ ConfIdle
NextFlow ==
    \/ StageAndCheck /\ UNCHANGED <<diffVars, sanVars, aiVars, promptVars, branchVars, confVars>>
    \/ CommitManual /\ UNCHANGED <<diffVars, sanVars, aiVars, promptVars, branchVars, confVars>>
    \/ GetChanges /\ UNCHANGED <<diffVars, sanVars, aiVars, promptVars, branchVars, confVars>>
    \/ Generate /\ UNCHANGED <<diffVars, sanVars, aiVars, promptVars, branchVars, confVars>>
    \/ DryRunEnd /\ UNCHANGED <<diffVars, sanVars, aiVars, promptVars, branchVars, confVars>>
    \/ AutoCommit /\ UNCHANGED <<diffVars, sanVars, aiVars, promptVars, branchVars, confVars>>
    \/ Confirm /\ UNCHANGED <<diffVars, sanVars, aiVars, promptVars, branchVars, confVars>>
SpecFlow == InitFlow /\ [][NextFlow]_vars

InitConf ==
    ConfInit /\ DiffIdle /\ SanIdle /\ AiIdle /\ PromptIdle /\ BranchIdle
    /\ FlowIdle
NextConf ==
    \/ SetProvider /\ UNCHANGED <<diffVars, sanVars, aiVars, promptVars, branchVars, flowVars>>
    \/ UpdateKey /\ UNCHANGED <<diffVars, sanVars, aiVars, promptVars, branchVars, flowVars>>
    \/ SetMaxTokens /\ UNCHANGED <<diffVars, sanVars, aiVars, promptVars, branchVars, flowVars>>
    \/ SetPreference /\ UNCHANGED <<diffVars, sanVars, aiVars, promptVars, branchVars, flowVars>>
    \/ SetDefaultStyle /\ UNCHANGED <<diffVars, sanVars, aiVars, promptVars, branchVars, flowVars>>
    \/ UseProvider /\ UNCHANGED <<diffVars, sanVars, aiVars, promptVars, branchVars, flowVars>>
SpecConf == InitConf /\ [][NextConf]_vars

Spec == Init /\ [][Next]_vars

(***************************************************************************)
(* The diff compressor's properties, checked under SpecDiff.               *)
(***************************************************************************)

\* C1: a diff of at most 15000 bytes (the empty diff included) is returned
\* unchanged, byte for byte.
C1_UnderBudgetUnchanged ==
    (dpc = "done" /\ StrLen(diff) <= MAX_DIFF_SIZE)
        => truncated = Returned(diff)

\* a diff of exactly 15000 bytes came back unchanged
C1_Witness ==
    /\ dpc = "done"
    /\ StrLen(diff) = MAX_DIFF_SIZE
    /\ truncated = Returned(diff)

\* C2: for a diff of more than 15000 bytes smart_truncate_diff terminates
\* and returns a text of at most 15000 bytes.
C2_OverBudgetReturnsBounded ==
    (dpc = "done" /\ StrLen(diff) > MAX_DIFF_SIZE)
        => (truncated.kind = "ok" /\ StrLen(truncated.text) <= MAX_DIFF_SIZE)

\* what does hold of an over-budget diff: whenever the call returns, the text
\* is shorter than the budget or the hard cut of 7500 + 32 bytes
OverBudgetBoundedWhenReturned ==
    (dpc = "done" /\ StrLen(diff) > MAX_DIFF_SIZE /\ truncated.kind = "ok")
        => \/ StrLen(truncated.text) < MAX_DIFF_SIZE
           \/ StrLen(truncated.text) = MAX_DIFF_SIZE \div 2 + 32

\* C11: smart_truncate_diff returns a text for every input and never panics,
\* also when the hard cut at byte 7500 falls inside a multi-byte character.
C11_NeverPanics == dpc = "done" => truncated.kind = "ok"

HasMarker(s) == \E i \in 1..Len(s) : s[i].c = "M"

\* C12: a diff of more than 15000 bytes without any "diff --git" marker
\* comes back as its first 7500 bytes followed by the truncation suffix.
C12_NoMarkerHardCut ==
    (dpc = "done" /\ StrLen(diff) > MAX_DIFF_SIZE /\ ~HasMarker(diff))
        => truncated = Returned(PushStr(Prefix(diff, MAX_DIFF_SIZE \div 2),
                                        TooLargeSuffix))

\* what does hold of an over-budget diff without a marker: skip(1) leaves no
\* chunk, important_parts stays empty and the empty text is returned
NoMarkerReturnsEmpty ==
    (dpc = "done" /\ StrLen(diff) > MAX_DIFF_SIZE /\ ~HasMarker(diff))
        => truncated = Returned(<<>>)

\* the file chunks of a text: the pieces after each marker
FileChunks(t) ==
    LET pieces == SplitOnMarker(t) IN SubSeq(pieces, 2, Len(pieces))

\* the first line of a chunk, the rest of the "diff --git a/.. b/.." line
ChunkHeader(c) == LET ls == Lines(c) IN IF ls = <<>> THEN <<>> ELSE ls[1]

\* the diff is one file chunk: one marker, at the start
OneChunkAtStart(d) ==
    /\ Len(d) >= 1
    /\ d[1].c = "M"
    /\ Len(FileChunks(d)) = 1

\* the complete header line of the first chunk of d, with its line feed
HeaderLine(d) ==
    PushStr(PushStr(MarkerStr, ChunkHeader(FileChunks(d)[1])), NewLine)

\* text s starts with text t
StartsWith(s, t) ==
    /\ StrLen(t) <= StrLen(s)
    /\ IsCharBoundary(s, StrLen(t))
    /\ Prefix(s, StrLen(t)) = t

\* the text ends with the suffix of the hard cut
IsHardCut(t) == t # <<>> /\ t[Len(t)].c = "S"

\* C13: a diff of more than 15000 bytes that is one file chunk comes back
\* with at most 15000 bytes and still holds the chunk's complete header
\* line, whatever the lengths of its lines.  (The only marker of the output
\* is at its start, so holding the header line is starting with it.)
C13_OneChunkKeepsHeader ==
    (dpc = "done" /\ StrLen(diff) > MAX_DIFF_SIZE /\ OneChunkAtStart(diff))
        => /\ truncated.kind = "ok"
           /\ StrLen(truncated.text) <= MAX_DIFF_SIZE
           /\ StartsWith(truncated.text, HeaderLine(diff))

\* what does hold of a one-chunk diff: the header line is kept whenever the
\* call returns something else than the hard cut
OneChunkHeaderKeptUnlessHardCut ==
    (/\ dpc = "done" /\ StrLen(diff) > MAX_DIFF_SIZE /\ OneChunkAtStart(diff)
     /\ truncated.kind = "ok" /\ ~IsHardCut(truncated.text))
        => /\ StrLen(truncated.text) < MAX_DIFF_SIZE
           /\ StartsWith(truncated.text, HeaderLine(diff))

\* the bytes of the first j chunks of chs, each with its marker
RECURSIVE BytesThrough(_, _)
BytesThrough(chs, j) ==
    IF j = 0 THEN 0
    ELSE 10 + StrLen(chs[j]) + BytesThrough(chs, j - 1)

\* C19: for a diff over the budget the chunks of the returned text are the
\* leading chunks of the diff, in the diff's order: chunk j of the output
\* carries the header of chunk j of the diff, every chunk but the last was
\* added while the output was at most 7500 bytes, and a chunk of the diff is
\* left out only when the output exceeds 7500 bytes.  The hard cut keeps the
\* leading chunks of the diff whole, up to the chunk the cut falls in.
C19_RetainedChunksArePrefix ==
    (dpc = "done" /\ StrLen(diff) > MAX_DIFF_SIZE /\ truncated.kind = "ok")
        => LET chunks == FileChunks(diff)
               out == FileChunks(truncated.text)
               k == Len(out)
           IN  /\ k <= Len(chunks)
               /\ IF IsHardCut(truncated.text)
                  THEN \A j \in 1..(k - 1) : out[j] = chunks[j]
                  ELSE /\ SplitOnMarker(truncated.text)[1] = <<>>
                       /\ \A j \in 1..k :
                              ChunkHeader(out[j]) = ChunkHeader(chunks[j])
                       /\ \A j \in 1..(k - 1) :
                              BytesThrough(out, j) <= MAX_DIFF_SIZE \div 2
                       /\ k < Len(chunks)
                              => StrLen(truncated.text) > MAX_DIFF_SIZE \div 2

\* two chunks were kept and a third one was dropped after the break
C19_Witness ==
    /\ dpc = "done"
    /\ StrLen(diff) > MAX_DIFF_SIZE
    /\ truncated.kind = "ok"
    /\ ~IsHardCut(truncated.text)
    /\ Len(FileChunks(truncated.text)) = 2
    /\ Len(FileChunks(diff)) = 3
    /\ FileChunks(diff)[3] # <<>>

(***************************************************************************)
(* The sanitizer's properties, checked under SpecSan.                      *)
(***************************************************************************)

\* C3: sanitize_commit_message is idempotent: a second pass over its own
\* output changes nothing.
C3_SanitizeIdempotent == sanPc = "twice" => sanText = sanPrev

Markers == {"*", "_", Tick}
NoMarkers(s) == \A i \in 1..Len(s) : s[i] \notin Markers

\* the maximal runs of characters of s that are no whitespace, in order
RECURSIVE WordsFrom(_, _, _, _)
WordsFrom(s, p, cur, acc) ==
    IF p > Len(s) THEN (IF cur = <<>> THEN acc ELSE Append(acc, cur))
    ELSE IF IsSpace(s[p])
         THEN WordsFrom(s, p + 1, <<>>,
                        IF cur = <<>> THEN acc ELSE Append(acc, cur))
         ELSE WordsFrom(s, p + 1, Append(cur, s[p]), acc)

Words(s) == WordsFrom(s, 1, <<>>, <<>>)

\* the words joined by single spaces
RECURSIVE JoinWords(_, _)
JoinWords(ws, i) ==
    IF i > Len(ws) THEN <<>>
    ELSE IF i = Len(ws) THEN ws[i]
    ELSE ws[i] \o <<" ">> \o JoinWords(ws, i + 1)

\* x with its leading and trailing whitespace removed and nothing else
\* changed
Trimmed(x) ==
    IF Words(x) = <<>> THEN <<>>
    ELSE LET first == CHOOSE i \in 1..Len(x) :
                          ~IsSpace(x[i]) /\ \A j \in 1..(i - 1) : IsSpace(x[j])
             last == CHOOSE i \in 1..Len(x) :
                          ~IsSpace(x[i]) /\ \A j \in (i + 1)..Len(x) : IsSpace(x[j])
         IN  SubSeq(x, first, last)

\* C4 as stated: for an input with no asterisk, underscore or backtick the
\* result is the input with only its leading and trailing whitespace removed.
C4_NoMarkersOnlyTrimmed ==
    (sanPc = "once" /\ NoMarkers(sanIn)) => sanText = Trimmed(sanIn)

\* C4 as amended: for an input with no asterisk, underscore or backtick the
\* result is the input with its leading and trailing whitespace removed and
\* every interior run of whitespace (line breaks included) replaced by one
\* space.
C4_NoMarkersTrimmedAndCollapsed ==
    (sanPc = "once" /\ NoMarkers(sanIn))
        => sanText = JoinWords(Words(sanIn), 1)

\* a marker-free input with a line break inside was sanitized
C4_Witness ==
    /\ sanPc = "once"
    /\ NoMarkers(sanIn)
    /\ \E i \in 2..(Len(sanIn) - 1) :
           sanIn[i] = "\n" /\ ~IsSpace(sanIn[1]) /\ ~IsSpace(sanIn[Len(sanIn)])
    /\ sanText # <<>>

\* the index after the match of the fence regex that starts at index i
FenceEnd(s, i) == SkipSpace(s, FenceClose(s, FenceInner(s, i))) + 3

\* the whole text is one fenced block: the fence regex matches all of it
WholeFence(t) ==
    /\ FirstFence(t, 1) = 1
    /\ FenceEnd(t, 1) = Len(t) + 1

\* the passes of the sanitizer after the code-block pass
AfterCodeBlock(t) ==
    Trim(CollapseWhitespace(RemoveStrayMarkers(StripInlineCode(
        StripItalicUnderscore(StripItalicAsterisk(StripBold(t)))))))

\* C14: the text is replaced by the inner content of a fenced block only
\* when the entire trimmed text is one fenced block; otherwise the
\* code-block pass leaves the text alone, so that nothing outside a fence is
\* discarded.
C14_UnwrapOnlyWholeFence ==
    (sanPc = "once" /\ ~WholeFence(Trim(sanIn)))
        => sanText = AfterCodeBlock(Trim(sanIn))

\* what does hold: when the fence regex matches nowhere in the trimmed text
\* the code-block pass leaves it alone
NoFenceNoUnwrap ==
    (sanPc = "once" /\ FirstFence(Trim(sanIn), 1) = 0)
        => sanText = AfterCodeBlock(Trim(sanIn))

\* C15: the output holds no asterisk, no underscore and no backtick.
C15_NoMarkerRemains == sanPc = "once" => NoMarkers(sanText)

\* what does hold: the output holds no asterisk and no underscore
NoAsteriskOrUnderscoreRemains ==
    sanPc = "once" => \A i \in 1..Len(sanText) : sanText[i] \notin {"*", "_"}

\* the first index >= p of s that holds a marker (Len(s)+1 if none)
RECURSIVE NextMarker(_, _)
NextMarker(s, p) ==
    IF p > Len(s) \/ s[p] \in Markers THEN p ELSE NextMarker(s, p + 1)

\* s from index p on is made of marker-free text and balanced spans
\* **t**, __t__, *t*, _t_ and `t` whose inner text t is not empty and holds
\* no marker
RECURSIVE Balanced(_, _)
Balanced(s, p) ==
    \/ p > Len(s)
    \/ s[p] \notin Markers /\ Balanced(s, p + 1)
    \/ \E k \in {1, 2} :
          /\ s[p] \in Markers
          /\ k = 2 => s[p] # Tick
          /\ AllAt(s, p, k, s[p])
          /\ LET e == NextMarker(s, p + k)
             IN  /\ e > p + k
                 /\ AllAt(s, e, k, s[p])
                 /\ Balanced(s, e + k)

\* s without its marker characters
WithoutMarkers(s) == SelectSeq(s, LAMBDA ch : ch \notin Markers)

\* C16: for an input made of marker-free text and balanced spans the result
\* is the input with every span replaced by its inner text, whitespace runs
\* collapsed to one space and the ends trimmed.
C16_BalancedSpansUnwrapped ==
    (sanPc = "once" /\ Balanced(sanIn, 1))
        => sanText = JoinWords(Words(WithoutMarkers(sanIn)), 1)

\* a text with a bold span, an inline-code span and plain text between them
\* was sanitized
C16_Witness ==
    /\ sanPc = "once"
    /\ Balanced(sanIn, 1)
    /\ \E i \in 1..Len(sanIn) : AllAt(sanIn, i, 2, "*")
    /\ \E i \in 1..Len(sanIn) : sanIn[i] = Tick
    /\ \E i \in 1..Len(sanIn) : sanIn[i] = ":"
    /\ sanText # <<>>

(***************************************************************************)
(* The provider gateway's properties, checked under Spec.                  *)
(***************************************************************************)

Unsupported == config.active_provider \notin SupportedProviders

\* C5 as stated: with an active provider name outside {"openai", "claude"}
\* call_ai fails with ApiUnsupportedProvider carrying that name, whatever the
\* stored credentials are, and nothing is dispatched.
C5_UnsupportedAlwaysReported ==
    (pc = "done" /\ Unsupported)
        => /\ result = Err(ApiUnsupportedProvider(config.active_provider))
           /\ posts = 0

\* C5 as amended: with an active provider name outside {"openai", "claude"}
\* call_ai fails with ApiUnsupportedProvider carrying that name when the name
\* has a stored entry with a non-empty API key, with ConfigProviderNotFound
\* when it has no stored entry and with ConfigApiKeyNotSet when its key is
\* empty; in every case nothing is dispatched to a provider.
C5_UnsupportedOutcome ==
    (pc = "done" /\ Unsupported)
        => LET name == config.active_provider
           IN  /\ name \notin DOMAIN config.providers
                    => result = Err(ConfigProviderNotFound(name))
               /\ (name \in DOMAIN config.providers
                    /\ config.providers[name].api_key = "")
                    => result = Err(ConfigApiKeyNotSet(name))
               /\ (name \in DOMAIN config.providers
                    /\ config.providers[name].api_key # "")
                    => result = Err(ApiUnsupportedProvider(name))
               /\ inflight = "none"
               /\ posts = 0

\* an unsupported name with a key was refused as unsupported
C5_Witness ==
    /\ pc = "done"
    /\ Unsupported
    /\ config.active_provider \in DOMAIN config.providers
    /\ result = Err(ApiUnsupportedProvider(config.active_provider))

\* C6: with an active provider name outside {"openai", "claude"} no network
\* request is ever issued, up to and including the return of the error.
C6_UnsupportedNoRequest ==
    Unsupported => (posts = 0 /\ pc \in {"idle", "done"}
                    /\ (pc = "done" => ~result.ok))

\* call_ai has returned its error for an unsupported name, no request issued
C6_Witness ==
    /\ pc = "done"
    /\ Unsupported
    /\ ~result.ok
    /\ posts = 0

\* a response with a status outside 2xx has been handled
NonSuccessHandled ==
    pc = "done" /\ bodyRead # "pending" /\ ~IsSuccess(response.status)

\* C7 as stated: for a status that is not 2xx the result is an auth error
\* with only the provider name when the status is 401 or 403, otherwise a
\* response error whose detail is the raw response body; never a network
\* error.
C7_NonSuccessRawBody ==
    NonSuccessHandled
        => result = IF response.status \in {401, 403}
                    THEN Err(ApiAuthError(inflight))
                    ELSE Err(ApiResponseError(inflight, response.body))

\* C7 as amended: for a status that is not 2xx the result is an auth error
\* with only the provider name when the status is 401 or 403, otherwise a
\* response error whose detail is the response body, or the empty text when
\* the body could not be read; never a network error.
C7_NonSuccessClassified ==
    NonSuccessHandled
        => /\ result = IF response.status \in {401, 403}
                       THEN Err(ApiAuthError(inflight))
                       ELSE Err(ApiResponseError(inflight,
                                IF bodyRead = "ok" THEN response.body
                                ELSE EmptyBody))
           /\ result.err.kind # "ApiNetworkError"

\* a 403 gave the auth error, and a 500 whose body could not be read gave a
\* response error with an empty detail
C7_Witness ==
    /\ NonSuccessHandled
    /\ \/ response.status = 403 /\ result = Err(ApiAuthError(inflight))
       \/ /\ response.status = 500
          /\ bodyRead = "failed"
          /\ response.body # EmptyBody
          /\ result = Err(ApiResponseError(inflight, EmptyBody))

\* the text field of item i of the response's list: the choice's message
\* content (OpenAI) or the block's text (Claude)
ItemText(i) ==
    IF inflight = "OpenAI" THEN response.body.items.v[i].content
    ELSE response.body.items.v[i].text

\* a 2xx response of the variant's own schema has been read and handled; its
\* list and its usage are there and every item after the first is complete
SuccessHandled ==
    /\ pc = "done"
    /\ bodyRead = "ok"
    /\ IsSuccess(response.status)
    /\ response.body.json
    /\ response.body.schema = (IF inflight = "OpenAI" THEN "openai" ELSE "claude")
    /\ response.body.items.some
    /\ response.body.usage.some
    /\ \A i \in 2..Len(response.body.items.v) : ItemText(i).some

\* the first item is there and has no text field
FirstLacksText ==
    /\ response.body.items.v # <<>>
    /\ ~ItemText(1).some

\* the expected message field is absent or of unexpected shape: OpenAI: no
\* first choice, or a first choice without message content; Claude: no first
\* content block, a first block whose type tag is not "text", or a first
\* block without text
MessageMissing ==
    \/ response.body.items.v = <<>>
    \/ FirstLacksText
    \/ inflight = "Claude" /\ response.body.items.v[1].type # "text"

ApiErrorKinds ==
    {"ApiNetworkError", "ApiAuthError", "ApiResponseError", "ApiNoResponse",
     "ApiUnsupportedProvider"}

\* C9 as stated: every failure call_ai returns is a network, auth, response,
\* no-response or unsupported-provider error.
C9_OnlyApiErrors ==
    (pc = "done" /\ ~result.ok) => result.err.kind \in ApiErrorKinds

\* C9 as amended: every failure call_ai returns is a network, auth,
\* response, no-response or unsupported-provider error, or one of the two
\* configuration errors of get_active_provider_config: ConfigProviderNotFound
\* (the active provider has no entry) and ConfigApiKeyNotSet (its key is
\* empty).
C9_ApiOrConfigErrors ==
    (pc = "done" /\ ~result.ok)
        => result.err.kind \in
               ApiErrorKinds \cup {"ConfigProviderNotFound", "ConfigApiKeyNotSet"}

\* a supported provider's response did not deserialize and call_ai returned
\* the response error
C9_Witness ==
    /\ pc = "done"
    /\ ~result.ok
    /\ IsSuccess(response.status)
    /\ bodyRead = "ok"
    /\ ~response.body.json
    /\ result.err.kind = "ApiResponseError"

\* the text the provider generated: the first choice's message content
\* (OpenAI) or the first content block's text (Claude)
ProviderText ==
    IF inflight = "OpenAI" THEN response.body.items.v[1].content.v
    ELSE response.body.items.v[1].text.v

\* C10: the message of a successful AiResponse is sanitize_commit_message of
\* the provider's text, for the OpenAI-style and the Claude-style variant
\* alike.
C10_MessageSanitized ==
    (pc = "done" /\ result.ok)
        => result.value.message = sanitize_commit_message(ProviderText)

\* the usage the response reported
ReportedUsage == response.body.usage.v

\* C17: the TokenUsage of a successful AiResponse: for the OpenAI-style
\* variant input, output and total are the reported prompt_tokens,
\* completion_tokens and total_tokens (the total as reported, not
\* recomputed); for the Claude-style variant input and output are the
\* reported input_tokens and output_tokens and total is their sum.
C17_UsageNormalized ==
    (pc = "done" /\ result.ok)
        => result.value.usage =
               IF inflight = "OpenAI"
               THEN TokenUsage(ReportedUsage.prompt_tokens,
                               ReportedUsage.completion_tokens,
                               ReportedUsage.total_tokens)
               ELSE TokenUsage(ReportedUsage.input_tokens,
                               ReportedUsage.output_tokens,
                               ReportedUsage.input_tokens
                                   + ReportedUsage.output_tokens)

\* what does hold: the same, for Claude-style counts whose sum fits a usize
UsageNormalizedWithinRange ==
    (/\ pc = "done" /\ result.ok
     /\ inflight = "Claude"
            => ReportedUsage.input_tokens + ReportedUsage.output_tokens
                   <= USIZE_MAX)
        => result.value.usage =
               IF inflight = "OpenAI"
               THEN TokenUsage(ReportedUsage.prompt_tokens,
                               ReportedUsage.completion_tokens,
                               ReportedUsage.total_tokens)
               ELSE TokenUsage(ReportedUsage.input_tokens,
                               ReportedUsage.output_tokens,
                               ReportedUsage.input_tokens
                                   + ReportedUsage.output_tokens)

\* C18: one invocation of call_ai issues at most one HTTP POST, and after a
\* transport failure or a response whose status is not 2xx the call returns
\* its error in that very step, without issuing another request.
C18_SinglePostNoRetry ==
    [][/\ posts' <= 1
       /\ posts = 1 => posts' = 1
       /\ (pc = "sending" /\ response' = response)
              => (pc' = "done" /\ ~result'.ok)
       /\ (pc = "reading" /\ ~IsSuccess(response.status))
              => (pc' = "done" /\ ~result'.ok)]_vars

\* a transport failure was returned after the one request
C18_Witness ==
    /\ pc = "done"
    /\ posts = 1
    /\ bodyRead = "pending"
    /\ ~result.ok
    /\ result.err.kind = "ApiNetworkError"

(***************************************************************************)
(* The prompt builders' properties, checked under SpecPrompt.              *)
(***************************************************************************)

\* the index of the first context label of p (Len(p)+1 if none)
RECURSIVE FirstLabel(_, _)
FirstLabel(p, i) ==
    IF i > Len(p) \/ p[i] = ContextLabel THEN i ELSE FirstLabel(p, i + 1)

\* the first index >= i of p that holds a line feed (Len(p)+1 if none)
RECURSIVE LineEnd(_, _)
LineEnd(p, i) ==
    IF i > Len(p) \/ p[i] = "\n" THEN i ELSE LineEnd(p, i + 1)

\* the context line of a prompt: its first line that starts with the
\* context label (the arguments are all substituted below that line)
ContextLine(p) ==
    LET i == FirstLabel(p, 1) IN SubSeq(p, i, LineEnd(p, i) - 1)

\* C20: with an empty context string build_commit_prompt and
\* build_branch_prompt render the context line as "Additional context: None",
\* whatever the style, files_changed and diff are; the placeholder is never
\* left empty.
C20_EmptyContextRendersNone ==
    (ppc \in {"commit", "branch"} /\ context = <<>>)
        => ContextLine(prompt) = <<ContextLabel, "None">>

\* a prompt was built from an empty context and a diff that itself holds
\* the context label
C20_Witness ==
    /\ ppc \in {"commit", "branch"}
    /\ context = <<>>
    /\ promptDiff = <<ContextLabel>>
    /\ ContextLine(prompt) = <<ContextLabel, "None">>

\* text t occurs in text p as a contiguous piece
Contains(p, t) ==
    \E i \in 0..(Len(p) - Len(t)) : SubSeq(p, i + 1, i + Len(t)) = t

AllArgumentsGiven == context # <<>> /\ files_changed # <<>> /\ promptDiff # <<>>

\* C21: for non-empty context, files_changed and diff the prompt of
\* build_commit_prompt holds each of the three texts verbatim, also when one
\* of them itself holds placeholder text such as "{files_changed}" or
\* "{diff}".
C21_ArgumentsVerbatim ==
    (ppc = "commit" /\ AllArgumentsGiven)
        => /\ Contains(prompt, context)
           /\ Contains(prompt, files_changed)
           /\ Contains(prompt, promptDiff)

\* what does hold: the diff, substituted last, is always held verbatim, and
\* so are a context without "{files_changed}" and "{diff}" and a
\* files_changed without "{diff}"
ArgumentsVerbatimUnlessPlaceholder ==
    (ppc = "commit" /\ AllArgumentsGiven)
        => /\ Contains(prompt, promptDiff)
           /\ (\A i \in 1..Len(context) :
                   context[i] \notin {"{files_changed}", "{diff}"})
                  => Contains(prompt, context)
           /\ (\A i \in 1..Len(files_changed) : files_changed[i] # "{diff}")
                  => Contains(prompt, files_changed)

\* the style instructions inside a built commit prompt: the lines between
\* the fixed head of the template and the context line
StyleSection ==
    IF ppc = "commit" THEN SubSeq(prompt, 4, FirstLabel(prompt, 1) - 3)
    ELSE SubSeq(prompt, 5, FirstLabel(prompt, 1) - 2)

\* the text has one of the lines
Mentions(text, lines) == \E i \in 1..Len(text) : text[i] \in lines

\* the lines of the sources that ask for the conventional one-line format,
\* for a multi-line message, and for at most 50 characters
ConventionalLines ==
    { "Use standard conventional commits format: 'type(scope): description'" }
MultiLineLines ==
    { "Create a detailed multi-line commit message following Git convention:",
      "Create a detailed multi-line commit message with a summary line followed by empty line and bullet points explaining the changes" }
FiftyCharacterLines == { "Maximum 50 characters. Be direct and specific." }

\* the instruction text the builder that ran gives for the Standard style
StandardInstructions ==
    IF ppc = "commit" THEN get_style_instructions("Standard")
    ELSE main_get_style_instructions("Standard")

\* C22: without a style the instructions are those of Standard; the style
\* set is closed with the three entries Standard, Detailed and Short, each
\* with its own instructions: the conventional single line, a multi-line
\* message, at most 50 characters.
C22_StyleTable ==
    ppc \in {"commit", "main"}
        => /\ style \in {"None", "Standard", "Detailed", "Short"}
           /\ style = "None" => StyleSection = StandardInstructions
           /\ style \in {"None", "Standard"}
                  => Mentions(StyleSection, ConventionalLines)
           /\ style = "Detailed" => Mentions(StyleSection, MultiLineLines)
           /\ style = "Short" => Mentions(StyleSection, FiftyCharacterLines)

\* what does hold: the same of the builder of prompts.rs alone, and the
\* default being the Standard entry in main.rs too
StyleTableOfPromptsRs ==
    /\ ppc = "commit"
           => /\ style \in {"None", "Standard", "Detailed", "Short"}
              /\ style = "None" => StyleSection = StandardInstructions
              /\ style \in {"None", "Standard"}
                     => Mentions(StyleSection, ConventionalLines)
              /\ style = "Detailed" => Mentions(StyleSection, MultiLineLines)
              /\ style = "Short" => Mentions(StyleSection, FiftyCharacterLines)
    /\ (ppc = "main" /\ style = "None") => StyleSection = StandardInstructions

(***************************************************************************)
(* Branch-name sanitization, checked under SpecBranch.                     *)
(***************************************************************************)

\* C23: the sanitized branch name matches ^[a-z0-9/-]*$, holds no two
\* consecutive hyphens and neither starts nor ends with a hyphen.
C23_BranchNameShape ==
    bpc = "done"
        => /\ \A i \in 1..Len(branchOut) : branchOut[i] \in {"a", "1", "/", "-"}
           /\ \A i \in 1..(Len(branchOut) - 1) :
                  ~(branchOut[i] = "-" /\ branchOut[i + 1] = "-")
           /\ branchOut # <<>>
                  => (branchOut[1] # "-" /\ branchOut[Len(branchOut)] # "-")

\* a text with an uppercase letter, a space and punctuation next to a
\* hyphen was sanitized to a name with a hyphen inside
C23_Witness ==
    /\ bpc = "done"
    /\ \E i \in 1..Len(branchIn) : branchIn[i] = "A"
    /\ \E i \in 1..Len(branchIn) : branchIn[i] \in {" ", "!"}
    /\ \E i \in 1..Len(branchOut) : branchOut[i] = "-"

(***************************************************************************)
(* The per-chunk output and the final guard, checked under SpecDiff.       *)
(***************************************************************************)

\* the text the loop accumulated: the returned text when the final guard
\* returns it, the accumulator itself when the guard falls back
Accumulated ==
    IF StrLen(ImportantParts(diff)) < MAX_DIFF_SIZE /\ truncated.kind = "ok"
    THEN truncated.text
    ELSE ImportantParts(diff)

\* the lines a chunk is to leave behind its marker in the output
ChunkSample(c) ==
    LET ls == Lines(c)
        n == Len(ls)
    IN  SubSeq(ls, 1, Min(5, n))
        \o (IF n > 20
            THEN <<Lines(TruncatedLine)[1]>>
                     \o SubSeq(ls, n \div 2 + 1, n \div 2 + 3)
            ELSE <<>>)

\* C26: each chunk of an over-budget diff that is processed, of n lines,
\* leaves in the output the marker and its first min(5, n) lines; when
\* n > 20 the truncation marker and the 3 lines at indices n/2 .. n/2+2
\* follow; when n <= 20 nothing else follows and no truncation marker.
C26_ChunkOutput ==
    (dpc = "done" /\ StrLen(diff) > MAX_DIFF_SIZE)
        => LET outs == FileChunks(Accumulated)
               chs == FileChunks(diff)
           IN  /\ Len(outs) <= Len(chs)
               /\ Len(SplitOnMarker(Accumulated)[1]) = 0
               /\ \A j \in 1..Len(outs) : Lines(outs[j]) = ChunkSample(chs[j])

\* a returned accumulation holding a chunk of fewer than 5 lines and a chunk
\* of more than 20 lines
C26_Witness ==
    /\ dpc = "done"
    /\ StrLen(diff) > MAX_DIFF_SIZE
    /\ truncated.kind = "ok"
    /\ truncated.text = ImportantParts(diff)
    /\ LET outs == FileChunks(truncated.text)
           chs == FileChunks(diff)
       IN  /\ \E j \in 1..Len(outs) :
                  Len(Lines(chs[j])) > 20 /\ Len(Lines(outs[j])) = 9
           /\ \E j \in 1..Len(outs) :
                  Len(Lines(chs[j])) \in 1..4
                      /\ Lines(outs[j]) = Lines(chs[j])

\* C27: for a diff over the budget the call returns the accumulated text
\* when that is shorter than 15000 bytes, and otherwise the first 7500
\* bytes of the diff followed by the truncation suffix; either result is
\* strictly shorter than 15000 bytes.
C27_FinalGuardResult ==
    (dpc = "done" /\ StrLen(diff) > MAX_DIFF_SIZE)
        => /\ truncated.kind = "ok"
           /\ truncated.text =
                  IF StrLen(ImportantParts(diff)) < MAX_DIFF_SIZE
                  THEN ImportantParts(diff)
                  ELSE PushStr(Prefix(diff, MAX_DIFF_SIZE \div 2), TooLargeSuffix)
           /\ StrLen(truncated.text) < MAX_DIFF_SIZE

\* what does hold: the same of every call that returns
FinalGuardResultWhenReturned ==
    (dpc = "done" /\ StrLen(diff) > MAX_DIFF_SIZE /\ truncated.kind = "ok")
        => /\ truncated.text =
                  IF StrLen(ImportantParts(diff)) < MAX_DIFF_SIZE
                  THEN ImportantParts(diff)
                  ELSE PushStr(Prefix(diff, MAX_DIFF_SIZE \div 2), TooLargeSuffix)
           /\ StrLen(truncated.text) < MAX_DIFF_SIZE

\* the fallback was taken and returned
HardCutReturned ==
    /\ dpc = "done"
    /\ StrLen(ImportantParts(diff)) >= MAX_DIFF_SIZE
    /\ truncated.kind = "ok"

(***************************************************************************)
(* The commit flow's properties, checked under SpecFlow.                   *)
(***************************************************************************)

\* C24: with --dry-run neither commit_changes nor push_changes is ever
\* invoked, with -m or with a generated message, whatever --yes and --push.
C24_DryRunNeverCommits ==
    cli.dry_run => (commit_calls = 0 /\ push_calls = 0)

\* a dry run with --yes and --push went through the generation and ended
C24_Witness ==
    /\ cli.dry_run /\ cli.yes /\ cli.push
    /\ fpc = "done"
    /\ ai_calls = 1
    /\ displayed.some

\* C25: with -m the flow never calls the AI provider, and a message that is
\* committed is exactly the supplied one.
C25_ManualMessageNoAi ==
    cli.message.some
        => /\ ai_calls = 0
           /\ committed.some => committed = cli.message

\* a message supplied with -m was committed
C25_Witness ==
    /\ cli.message.some
    /\ fpc = "done"
    /\ commit_calls = 1
    /\ committed = cli.message

\* C28: after the user chose edit at the confirmation prompt, the committed
\* message is the edited text after sanitization, not the generated message.
C28_EditedMessageCommitted ==
    (answer = "e" /\ committed.some)
        => committed = Some(main_sanitize_commit_message(edited))

\* what does hold: after edit the generated message is committed as it is
EditedTextIgnored ==
    (answer = "e" /\ committed.some) => committed = Some(generated)

\* C29: with an AI-generated message, the message handed to commit_changes
\* is exactly the text displayed as the generated commit message.
C29_CommittedIsDisplayed ==
    (~cli.message.some /\ committed.some) => committed = displayed

\* what does hold: the displayed text is the sanitized form of the committed
\* message
DisplayedIsSanitizedCommitted ==
    (~cli.message.some /\ committed.some)
        => displayed = Some(main_sanitize_commit_message(committed.v))

(***************************************************************************)
(* The configuration's invariant, checked under SpecConf.                  *)
(***************************************************************************)

\* C30: from the default configuration, after any sequence of set_provider,
\* update_key, set_max_tokens, set_preference, set_default_style and
\* use_provider, successful or failed, active_provider is a key of the
\* providers map; update_key never changes active_provider, and a failed
\* use_provider, set_preference or set_default_style leaves the
\* configuration unchanged.
C30_ActiveProviderConfigured ==
    /\ [](conf.active_provider \in DOMAIN conf.providers)
    /\ [][/\ lastOp'.op = "update_key"
              => conf'.active_provider = conf.active_provider
          /\ (/\ lastOp'.op \in {"use_provider", "set_preference",
                                  "set_default_style"}
              /\ ~lastOp'.ok)
              => conf' = conf]_vars

\* a use_provider failed after the active provider was switched, a key
\* updated for a provider that is not the active one, and a style and a
\* preference set
C30_Witness ==
    /\ lastOp = [op |-> "use_provider", ok |-> FALSE]
    /\ conf.active_provider = "claude"
    /\ "gemini" \in DOMAIN conf.providers
    /\ conf.providers["gemini"].api_key = "sk"
    /\ conf.default_style = Some("standard")
    /\ conf.preferences.verbose = Some(TRUE)

====
